---- MODULE Spec2Model ----
(***************************************************************************)
(* Model of the Todoist MCP server of src/main.py: five tool handlers      *)
(* (create, get, update, delete, complete) in front of the remote          *)
(* TodoistAPI client.  The collaborator's task list is `store`; every      *)
(* dispatcher worker i has the record inv[i] of the invocation it is       *)
(* serving (or has served last): its arguments, the handler's locals, the  *)
(* collaborator calls it issued and the text it returned.                  *)
(*                                                                         *)
(* Text is a sequence of string fragments whose concatenation is the       *)
(* Python string.  Task contents and task names are spelled one character  *)
(* per fragment, so that lower() and the `in` substring test are computed. *)
(* An Optional[...] argument is a sequence of length 0 (None) or 1.        *)
(***************************************************************************)
EXTENDS Integers, Sequences, FiniteSets, TLC

\* ------------------------------------------------------------------ bounds
MaxTasks == 2          \* the collaborator holds at most this many active tasks
NumProcs == 2          \* dispatcher workers of the concurrent specification
MaxLimit == 2          \* largest `limit` argument drawn for todoist_get_tasks

\* ------------------------------------------------------- program constants
MinPriority == 1       \* lower end of the accepted priority range
MaxPriority == 4       \* upper end of the accepted priority range
DefaultPriority == 1   \* priority of a task created without one (1 = normal)
DefaultLimit == 10     \* default of todoist_get_tasks' limit parameter

Procs == 1..NumProcs

None == <<>>
Some(x) == <<x>>

\* ------------------------------------------------------------ Python values
\* str.lower() on one character of the alphabet used for contents and names.
LowerChar(c) ==
    CASE c = "A" -> "a"
      [] c = "B" -> "b"
      [] OTHER -> c

\* str.lower()
Lower(s) == [k \in 1..Len(s) |-> LowerChar(s[k])]

\* Python's `needle in haystack` on strings.
IsSubstring(needle, haystack) ==
    \E k \in 0..(Len(haystack) - Len(needle)) :
        SubSeq(haystack, k + 1, k + Len(needle)) = needle

\* Truthiness of an Optional[str]: None and "" are falsy.
StrTruthy(opt) == opt # None /\ opt[1] # <<>>

\* Truthiness of an Optional[int]: None and 0 are falsy.
IntTruthy(opt) == opt # None /\ opt[1] # 0

\* Mutant: the range test is left out and any non-zero priority passes.
M_PriorityValid_no_range(priority) == IntTruthy(priority)

\* `priority and 1 <= priority <= 4`
PriorityValid(priority) ==
    IntTruthy(priority) /\ MinPriority <= priority[1] /\ priority[1] <= MaxPriority

\* A dict with at most one key.
Entry(cond, key, value) == IF cond THEN key :> value ELSE <<>>

\* str(int)
IntStr(n) == ToString(n)

\* "\n\n".join(parts)
RECURSIVE Join(_)
Join(parts) ==
    IF parts = <<>> THEN <<>>
    ELSE IF Len(parts) = 1 THEN parts[1]
    ELSE parts[1] \o <<"\n\n">> \o Join(Tail(parts))

\* ------------------------------------------------------------------- state
VARIABLES
    store,   \* the collaborator's active tasks, in the order get_tasks returns them
    inv      \* inv[i]: the invocation worker i is serving or has served last

vars == <<store, inv>>

\* No invocation in hand.
Idle ==
    [pc |-> "ready", op |-> "none", args |-> <<>>, fetched |-> None, tasks |-> <<>>,
     matching_task |-> None, calls |-> <<>>, raised |-> None, is_success |-> None,
     result |-> None, escaped |-> None]

\* A worker takes the next invocation once the previous one has returned its
\* text; a fault that escaped a handler would take the server down.
CanServe(i) == inv[i].pc = "ready" /\ \A j \in Procs : inv[j].escaped = None

\* ------------------------------------------------------------ collaborator
\* The Task a successful add_task returns for **task_params.
NewTask(id, task_params) ==
    [id |-> id,
     content |-> task_params["content"],
     description |-> IF "description" \in DOMAIN task_params
                     THEN task_params["description"] ELSE <<>>,
     due |-> IF "due_string" \in DOMAIN task_params
             THEN Some(task_params["due_string"]) ELSE None,
     priority |-> IF "priority" \in DOMAIN task_params
                  THEN task_params["priority"] ELSE DefaultPriority]

\* Identifiers are opaque and never reused while anything still refers to them.
UsedIds ==
    {store[k].id : k \in 1..Len(store)} \cup
    {inv[j].matching_task[1].id : j \in {p \in Procs : inv[p].pc = "resolved"}}

FreshId == CHOOSE n \in 1..(MaxTasks + NumProcs + 1) :
               n \notin UsedIds /\ \A m \in 1..(n - 1) : m \in UsedIds

\* The sequence s restricted to the positions in keep.
RECURSIVE Restrict(_, _, _)
Restrict(s, keep, k) ==
    IF k > Len(s) THEN <<>>
    ELSE (IF k \in keep THEN <<s[k]>> ELSE <<>>) \o Restrict(s, keep, k + 1)

\* The tasks the collaborator holds when the concurrent dispatcher starts.
StartupTasks ==
    <<NewTask(1, "content" :> <<"A", "b">>), NewTask(2, "content" :> <<"b">>)>>

\* Mutant: the task list is fetched once at start-up and served from a cache.
M_GetTasksReplies_cached(params) == {StartupTasks}

\* What get_tasks(**params) can return: every active task when params is empty,
\* otherwise the tasks the remote project/filter expression selects.
GetTasksReplies(params) ==
    IF DOMAIN params = {} THEN {store}
    ELSE {Restrict(store, keep, 1) : keep \in SUBSET (1..Len(store))}

\* The store after update_task(task_id, **update_data) succeeded.
UpdatedStore(task_id, update_data) ==
    [k \in 1..Len(store) |->
        IF store[k].id # task_id THEN store[k]
        ELSE [id |-> task_id,
              content |-> IF "content" \in DOMAIN update_data
                          THEN update_data["content"] ELSE store[k].content,
              description |-> IF "description" \in DOMAIN update_data
                              THEN update_data["description"] ELSE store[k].description,
              due |-> IF "due_string" \in DOMAIN update_data
                      THEN Some(update_data["due_string"]) ELSE store[k].due,
              priority |-> IF "priority" \in DOMAIN update_data
                           THEN update_data["priority"] ELSE store[k].priority]]

\* The store after delete_task(task_id) or close_task(task_id) succeeded: the
\* task is no longer among the active tasks.
RemovedStore(task_id) == SelectSeq(store, LAMBDA t : t.id # task_id)

\* The store after the mutating call succeeded.
Applied(call) ==
    IF call.fn = "update_task" THEN UpdatedStore(call.kwargs["task_id"], call.kwargs)
    ELSE RemovedStore(call.kwargs["task_id"])

\* Messages of the faults the client library raises.
FaultMessages == {<<"503 Server Error">>}

\* ---------------------------------------------------------------- handlers
\* A handler returned `text` to the dispatcher.
Returned(text) == [result |-> Some(text), escaped |-> None]

\* inv[i] once the handler has finished with `outcome`.
Finish(rec, outcome) ==
    [rec EXCEPT !.pc = "returned", !.result = outcome.result, !.escaped = outcome.escaped]

\* The collaborator raised `error` into the handler, whose except clause
\* produced `outcome`.
Fault(rec, error, outcome) == Finish([rec EXCEPT !.raised = Some(error)], outcome)

\* A collaborator call as the client library sees it.
Call(fn, kwargs) == [fn |-> fn, kwargs |-> kwargs]

\* The dispatcher sends the handler's text to the client and discards the
\* invocation; the worker is free for the next one.
respond(i) ==
    /\ inv[i].pc = "returned" /\ inv[i].escaped = None
    /\ store' = store
    /\ inv' = [inv EXCEPT ![i] = Idle]

\* ---- todoist_create_task
create_task_params(content, description, due_string, priority) ==
    ("content" :> content)
        @@ Entry(StrTruthy(description), "description", description[1])
        @@ Entry(StrTruthy(due_string), "due_string", due_string[1])
        @@ Entry(PriorityValid(priority), "priority", priority[1])

\* Mutant: the Description line is written whether or not there is one.
M_create_response_description_always(task) ==
    <<"Task created:", "\nTitle: ">> \o task.content
        \o <<"\nDescription: ">> \o task.description
        \o (IF task.due # None THEN <<"\nDue: ">> \o task.due[1] ELSE <<>>)
        \o (IF task.priority # 0
            THEN <<"\nPriority: ", IntStr(task.priority)>> ELSE <<>>)

create_response(task) ==
    <<"Task created:", "\nTitle: ">> \o task.content
        \o (IF task.description # <<>>
            THEN <<"\nDescription: ">> \o task.description ELSE <<>>)
        \o (IF task.due # None THEN <<"\nDue: ">> \o task.due[1] ELSE <<>>)
        \o (IF task.priority # 0
            THEN <<"\nPriority: ", IntStr(task.priority)>> ELSE <<>>)

create_except(error) == Returned(<<"Error ", "creating task: ">> \o error)

todoist_create_task(i, content, description, due_string, priority) ==
    /\ CanServe(i)
    /\ LET task_params == create_task_params(content, description, due_string, priority)
           rec == [Idle EXCEPT
                     !.op = "create",
                     !.args = [content |-> content, description |-> description,
                               due_string |-> due_string, priority |-> priority],
                     !.calls = <<Call("add_task", task_params)>>]
       IN \/ /\ Len(store) < MaxTasks
             /\ LET task == NewTask(FreshId, task_params)
                IN /\ store' = Append(store, task)
                   /\ inv' = [inv EXCEPT ![i] = Finish(rec, Returned(create_response(task)))]
          \/ \E error \in FaultMessages :
                /\ store' = store
                /\ inv' = [inv EXCEPT ![i] = Fault(rec, error, create_except(error))]

\* ---- todoist_get_tasks
get_tasks_params(project_id, filter) ==
    Entry(StrTruthy(project_id), "project_id", project_id[1])
        @@ Entry(StrTruthy(filter), "filter", filter[1])

get_tasks_filtered(tasks, priority) ==
    IF PriorityValid(priority)
    THEN SelectSeq(tasks, LAMBDA task : task.priority = priority[1])
    ELSE tasks

\* Mutant: `tasks[:limit]` without the `limit > 0` test; a negative limit then
\* slices from the end.
M_get_tasks_limited_slice(tasks, limit) ==
    IF limit = 0 THEN tasks
    ELSE IF limit > 0
         THEN SubSeq(tasks, 1, IF limit < Len(tasks) THEN limit ELSE Len(tasks))
         ELSE SubSeq(tasks, 1, Len(tasks) + limit)

get_tasks_limited(tasks, limit) ==
    IF limit # 0 /\ limit > 0
    THEN SubSeq(tasks, 1, IF limit < Len(tasks) THEN limit ELSE Len(tasks))
    ELSE tasks

task_text(task) ==
    <<"- ">> \o task.content
        \o (IF task.description # <<>>
            THEN <<"\n  Description: ">> \o task.description ELSE <<>>)
        \o (IF task.due # None THEN <<"\n  Due: ">> \o task.due[1] ELSE <<>>)
        \o (IF task.priority # 0
            THEN <<"\n  Priority: ", IntStr(task.priority)>> ELSE <<>>)

get_tasks_response(tasks) ==
    IF tasks = <<>> THEN <<"No tasks found matching the criteria">>
    ELSE Join([k \in 1..Len(tasks) |-> task_text(tasks[k])])

get_tasks_except(error) == Returned(<<"Error ", "getting tasks: ">> \o error)

todoist_get_tasks(i, project_id, filter, priority, limit) ==
    /\ CanServe(i)
    /\ store' = store
    /\ LET params == get_tasks_params(project_id, filter)
           rec == [Idle EXCEPT
                     !.op = "get",
                     !.args = [project_id |-> project_id, filter |-> filter,
                               priority |-> priority, limit |-> limit],
                     !.calls = <<Call("get_tasks", params)>>]
       IN \/ \E fetched \in GetTasksReplies(params) :
                LET tasks == get_tasks_limited(get_tasks_filtered(fetched, priority), limit)
                IN inv' = [inv EXCEPT ![i] =
                             Finish([rec EXCEPT !.fetched = Some(fetched), !.tasks = tasks],
                                    Returned(get_tasks_response(tasks)))]
          \/ \E error \in FaultMessages :
                inv' = [inv EXCEPT ![i] = Fault(rec, error, get_tasks_except(error))]

\* Mutant: the searched name is left out of the text.
M_not_found_text_no_name(task_name) == <<"Could not find a task matching \"">> \o <<"\"">>

\* The "could not find" text of update, delete and complete.
not_found_text(task_name) ==
    <<"Could not find a task matching \"">> \o task_name \o <<"\"">>

\* ---- todoist_update_task
\* Mutant: the loop has no `break`, so the last match wins.
RECURSIVE M_update_matching_task_last(_, _)
M_update_matching_task_last(tasks, task_name) ==
    IF tasks = <<>> THEN None
    ELSE LET later == M_update_matching_task_last(Tail(tasks), task_name)
         IN IF later # None THEN later
            ELSE IF IsSubstring(Lower(task_name), Lower(Head(tasks).content))
                 THEN Some(Head(tasks)) ELSE None

\* The scan loop: the first task whose lowered content contains the lowered name.
RECURSIVE update_matching_task(_, _)
update_matching_task(tasks, task_name) ==
    IF tasks = <<>> THEN None
    ELSE IF IsSubstring(Lower(task_name), Lower(Head(tasks).content))
         THEN Some(Head(tasks))
         ELSE update_matching_task(Tail(tasks), task_name)

update_data(content, description, due_string, priority) ==
    Entry(StrTruthy(content), "content", content[1])
        @@ Entry(StrTruthy(description), "description", description[1])
        @@ Entry(StrTruthy(due_string), "due_string", due_string[1])
        @@ Entry(PriorityValid(priority), "priority", priority[1])

update_response(matching_task, content, description, due_string, priority) ==
    <<"Task \"">> \o matching_task.content \o <<"\" updated:">>
        \o (IF StrTruthy(content) THEN <<"\nNew Title: ">> \o content[1] ELSE <<>>)
        \o (IF StrTruthy(description)
            THEN <<"\nNew Description: ">> \o description[1] ELSE <<>>)
        \o (IF StrTruthy(due_string)
            THEN <<"\nNew Due Date: derived from '">> \o due_string[1] \o <<"'">>
            ELSE <<>>)
        \o (IF IntTruthy(priority)
            THEN <<"\nNew Priority: ", IntStr(priority[1])>> ELSE <<>>)

\* Line 185: the update_task call.
update_call(matching_task, data) ==
    Call("update_task", ("task_id" :> matching_task.id) @@ data)

\* Mutant: the success indicator is not looked at.
M_update_result_ignores_flag(is_success, matching_task, a) ==
    update_response(matching_task, a.content, a.description, a.due_string, a.priority)

\* Lines 187-204: the text for the collaborator's success indicator.
update_result(is_success, matching_task, a) ==
    IF is_success
    THEN update_response(matching_task, a.content, a.description, a.due_string, a.priority)
    ELSE <<"Task update failed">>

\* Mutant: no except clause; the fault leaves the handler.
M_update_except_reraise(error) == [result |-> None, escaped |-> Some(error)]

update_except(error) == Returned(<<"Error ", "updating task: ">> \o error)

\* Lines 157-171: fetch every task and resolve task_name.
todoist_update_task_fetch(i, task_name, content, description, due_string, priority) ==
    /\ CanServe(i)
    /\ store' = store
    /\ LET rec == [Idle EXCEPT
                     !.op = "update",
                     !.args = [task_name |-> task_name, content |-> content,
                               description |-> description, due_string |-> due_string,
                               priority |-> priority],
                     !.calls = <<Call("get_tasks", <<>>)>>]
       IN \/ \E tasks \in GetTasksReplies(<<>>) :
                LET matching_task == update_matching_task(tasks, task_name)
                    found == [rec EXCEPT !.fetched = Some(tasks), !.tasks = tasks,
                                         !.matching_task = matching_task]
                IN inv' = [inv EXCEPT ![i] =
                             IF matching_task = None
                             THEN Finish(found, Returned(not_found_text(task_name)))
                             ELSE [found EXCEPT !.pc = "resolved"]]
          \/ \E error \in FaultMessages :
                inv' = [inv EXCEPT ![i] = Fault(rec, error, update_except(error))]

\* Lines 173-207: build the update, call update_task, render the outcome.
todoist_update_task_act(i) ==
    /\ inv[i].pc = "resolved" /\ inv[i].op = "update"
    /\ LET a == inv[i].args
           matching_task == inv[i].matching_task[1]
           data == update_data(a.content, a.description, a.due_string, a.priority)
           call == update_call(matching_task, data)
           rec == [inv[i] EXCEPT !.calls = Append(@, call)]
       IN \/ \E is_success \in BOOLEAN :
                /\ store' = IF is_success THEN Applied(call) ELSE store
                /\ inv' = [inv EXCEPT ![i] =
                             Finish([rec EXCEPT !.is_success = Some(is_success)],
                                    Returned(update_result(is_success, matching_task, a)))]
          \/ \E error \in FaultMessages :
                /\ store' = store
                /\ inv' = [inv EXCEPT ![i] = Fault(rec, error, update_except(error))]

\* ---- todoist_delete_task
RECURSIVE delete_matching_task(_, _)
delete_matching_task(tasks, task_name) ==
    IF tasks = <<>> THEN None
    ELSE IF IsSubstring(Lower(task_name), Lower(Head(tasks).content))
         THEN Some(Head(tasks))
         ELSE delete_matching_task(Tail(tasks), task_name)

delete_response(matching_task) ==
    <<"Successfully deleted task: \"">> \o matching_task.content \o <<"\"">>

\* Mutant: the delete handler calls close_task, as its copy in complete does.
M_delete_call_close(matching_task) == Call("close_task", "task_id" :> matching_task.id)

\* The delete_task call.
delete_call(matching_task) == Call("delete_task", "task_id" :> matching_task.id)

\* The text for the collaborator's success indicator.
delete_result(is_success, matching_task) ==
    IF is_success THEN delete_response(matching_task) ELSE <<"Task deletion failed">>

delete_except(error) == Returned(<<"Error ", "deleting task: ">> \o error)

\* Lines 216-230.
todoist_delete_task_fetch(i, task_name) ==
    /\ CanServe(i)
    /\ store' = store
    /\ LET rec == [Idle EXCEPT
                     !.op = "delete",
                     !.args = [task_name |-> task_name],
                     !.calls = <<Call("get_tasks", <<>>)>>]
       IN \/ \E tasks \in GetTasksReplies(<<>>) :
                LET matching_task == delete_matching_task(tasks, task_name)
                    found == [rec EXCEPT !.fetched = Some(tasks), !.tasks = tasks,
                                         !.matching_task = matching_task]
                IN inv' = [inv EXCEPT ![i] =
                             IF matching_task = None
                             THEN Finish(found, Returned(not_found_text(task_name)))
                             ELSE [found EXCEPT !.pc = "resolved"]]
          \/ \E error \in FaultMessages :
                inv' = [inv EXCEPT ![i] = Fault(rec, error, delete_except(error))]

\* Lines 232-243.
todoist_delete_task_act(i) ==
    /\ inv[i].pc = "resolved" /\ inv[i].op = "delete"
    /\ LET matching_task == inv[i].matching_task[1]
           call == delete_call(matching_task)
           rec == [inv[i] EXCEPT !.calls = Append(@, call)]
       IN \/ \E is_success \in BOOLEAN :
                /\ store' = IF is_success THEN Applied(call) ELSE store
                /\ inv' = [inv EXCEPT ![i] =
                             Finish([rec EXCEPT !.is_success = Some(is_success)],
                                    Returned(delete_result(is_success, matching_task)))]
          \/ \E error \in FaultMessages :
                /\ store' = store
                /\ inv' = [inv EXCEPT ![i] = Fault(rec, error, delete_except(error))]

\* ---- todoist_complete_task
RECURSIVE complete_matching_task(_, _)
complete_matching_task(tasks, task_name) ==
    IF tasks = <<>> THEN None
    ELSE IF IsSubstring(Lower(task_name), Lower(Head(tasks).content))
         THEN Some(Head(tasks))
         ELSE complete_matching_task(Tail(tasks), task_name)

complete_response(matching_task) ==
    <<"Successfully completed task: \"">> \o matching_task.content \o <<"\"">>

\* The close_task call.
complete_call(matching_task) == Call("close_task", "task_id" :> matching_task.id)

\* The text for the collaborator's success indicator.
complete_result(is_success, matching_task) ==
    IF is_success THEN complete_response(matching_task) ELSE <<"Task completion failed">>

complete_except(error) == Returned(<<"Error ", "completing task: ">> \o error)

\* Lines 252-266.
todoist_complete_task_fetch(i, task_name) ==
    /\ CanServe(i)
    /\ store' = store
    /\ LET rec == [Idle EXCEPT
                     !.op = "complete",
                     !.args = [task_name |-> task_name],
                     !.calls = <<Call("get_tasks", <<>>)>>]
       IN \/ \E tasks \in GetTasksReplies(<<>>) :
                LET matching_task == complete_matching_task(tasks, task_name)
                    found == [rec EXCEPT !.fetched = Some(tasks), !.tasks = tasks,
                                         !.matching_task = matching_task]
                IN inv' = [inv EXCEPT ![i] =
                             IF matching_task = None
                             THEN Finish(found, Returned(not_found_text(task_name)))
                             ELSE [found EXCEPT !.pc = "resolved"]]
          \/ \E error \in FaultMessages :
                inv' = [inv EXCEPT ![i] = Fault(rec, error, complete_except(error))]

\* Lines 268-279.
todoist_complete_task_act(i) ==
    /\ inv[i].pc = "resolved" /\ inv[i].op = "complete"
    /\ LET matching_task == inv[i].matching_task[1]
           call == complete_call(matching_task)
           rec == [inv[i] EXCEPT !.calls = Append(@, call)]
       IN \/ \E is_success \in BOOLEAN :
                /\ store' = IF is_success THEN Applied(call) ELSE store
                /\ inv' = [inv EXCEPT ![i] =
                             Finish([rec EXCEPT !.is_success = Some(is_success)],
                                    Returned(complete_result(is_success, matching_task)))]
          \/ \E error \in FaultMessages :
                /\ store' = store
                /\ inv' = [inv EXCEPT ![i] = Fault(rec, error, complete_except(error))]

\* ------------------------------------------------------------------ inputs
\* Requests are drawn from small sets.  Contents and names are chosen so that
\* a name can match no task, one task, or several, with and without a change
\* of case, at the start of the content or inside it.
Contents == {<<"A", "b">>, <<"b">>}
TaskNames == {<<>>, <<"a">>, <<"B">>, <<"b", "a">>}
OptPriorities ==
    {None} \cup {Some(p) : p \in {-1, 0, MinPriority, MaxPriority, MaxPriority + 1}}
Limits == ((-1)..MaxLimit) \cup {DefaultLimit}

CreateRequests ==
    [content : Contents, description : {None, Some(<<>>)}, due_string : {None},
     priority : OptPriorities]

GetRequests ==
    [project_id : {None}, filter : {None, Some(<<>>)},
     priority : OptPriorities, limit : Limits]
    \cup [project_id : {None, Some(<<"p1">>)}, filter : {None, Some(<<"today">>)},
          priority : {None, Some(MaxPriority)}, limit : {DefaultLimit}]

UpdateRequests ==
    [task_name : TaskNames, content : {None, Some(<<"b">>)}, description : {None},
     due_string : {None}, priority : OptPriorities]
    \cup [task_name : {<<"a">>}, content : {None, Some(<<>>)},
          description : {None, Some(<<>>)}, due_string : {None, Some(<<>>)},
          priority : {None}]

\* ----------------------------------------------------------- specification
Init ==
    /\ store = <<>>
    /\ inv = [i \in Procs |-> Idle]

\* The dispatcher serving one invocation at a time: worker 1 runs every handler
\* to completion before it takes the next invocation.
Next ==
    \/ \E r \in CreateRequests :
          todoist_create_task(1, r.content, r.description, r.due_string, r.priority)
    \/ \E r \in GetRequests :
          todoist_get_tasks(1, r.project_id, r.filter, r.priority, r.limit)
    \/ \E r \in UpdateRequests :
          todoist_update_task_fetch(1, r.task_name, r.content, r.description,
                                    r.due_string, r.priority)
    \/ todoist_update_task_act(1)
    \/ \E task_name \in TaskNames : todoist_delete_task_fetch(1, task_name)
    \/ todoist_delete_task_act(1)
    \/ \E task_name \in TaskNames : todoist_complete_task_fetch(1, task_name)
    \/ todoist_complete_task_act(1)
    \/ respond(1)

Spec == Init /\ [][Next]_vars

\* The same dispatcher under requests that vary the optional text fields:
\* descriptions and due strings that are absent, empty or set.
FieldCreateRequests ==
    [content : {<<"A", "b">>}, description : {None, Some(<<>>), Some(<<"note">>)},
     due_string : {None, Some(<<"tomorrow">>)},
     priority : {None, Some(0), Some(MaxPriority)}]

FieldUpdateRequests ==
    [task_name : {<<"a">>}, content : {None, Some(<<"A", "b">>)},
     description : {None, Some(<<>>), Some(<<"note">>)},
     due_string : {None, Some(<<"tomorrow">>)},
     priority : {None, Some(MaxPriority), Some(MaxPriority + 1)}]

NextFields ==
    \/ \E r \in FieldCreateRequests :
          todoist_create_task(1, r.content, r.description, r.due_string, r.priority)
    \/ todoist_get_tasks(1, None, None, None, DefaultLimit)
    \/ \E r \in FieldUpdateRequests :
          todoist_update_task_fetch(1, r.task_name, r.content, r.description,
                                    r.due_string, r.priority)
    \/ todoist_update_task_act(1)
    \/ todoist_delete_task_fetch(1, <<"a">>)
    \/ todoist_delete_task_act(1)
    \/ todoist_complete_task_fetch(1, <<"a">>)
    \/ todoist_complete_task_act(1)
    \/ respond(1)

SpecFields == Init /\ [][NextFields]_vars

\* The dispatcher serving invocations concurrently: every worker runs the same
\* handlers, and the collaborator calls of different invocations interleave.
\* A handler takes no lock and shares nothing with the others but the
\* collaborator, which starts with two tasks.
InitConc ==
    /\ store = StartupTasks
    /\ inv = [i \in Procs |-> Idle]

NextConc ==
    \E i \in Procs :
        \/ todoist_get_tasks(i, None, None, None, DefaultLimit)
        \/ todoist_update_task_fetch(i, <<"a">>, Some(<<"b">>), None, None, None)
        \/ todoist_update_task_act(i)
        \/ todoist_delete_task_fetch(i, <<"B">>)
        \/ todoist_delete_task_act(i)
        \/ todoist_complete_task_fetch(i, <<"a">>)
        \/ todoist_complete_task_act(i)
        \/ respond(i)

SpecConc == InitConc /\ [][NextConc]_vars

\* ------------------------------------------------------ vocabulary of claims
ResolverOps == {"update", "delete", "complete"}

\* The content contains the name, compared character by character after
\* lowering both.
ContainsIgnoringCase(content, name) ==
    \E off \in 0..(Len(content) - Len(name)) :
        \A j \in 1..Len(name) : LowerChar(content[off + j]) = LowerChar(name[j])

\* m is the first task of `tasks`, in order, whose content contains the name;
\* None when there is none.
IsFirstMatch(tasks, name, m) ==
    \/ /\ m = None
       /\ \A k \in 1..Len(tasks) : ~ContainsIgnoringCase(tasks[k].content, name)
    \/ \E k \in 1..Len(tasks) :
          /\ m = Some(tasks[k])
          /\ ContainsIgnoringCase(tasks[k].content, name)
          /\ \A j \in 1..(k - 1) : ~ContainsIgnoringCase(tasks[j].content, name)

\* The text holds `part` as a run of consecutive fragments.
Contains(text, part) ==
    \E off \in 0..(Len(text) - Len(part)) :
        SubSeq(text, off + 1, off + Len(part)) = part

HasFragment(text, fragment) == \E k \in 1..Len(text) : text[k] = fragment

BeginsWithError(text) == text # <<>> /\ text[1] = "Error "

InRange(priority) ==
    priority # None /\ priority[1] \in MinPriority..MaxPriority

\* The invocation of worker i has returned its text.
HasReturned(i) == inv[i].pc = "returned" /\ inv[i].result # None

\* C1: in update, delete and complete the task acted on is the first task, in
\* the order the collaborator returned them, whose lowercased content contains
\* the lowercased task_name (the empty name matches the first task); a later
\* match is never chosen, and the three handlers resolve alike.
C1_FirstMatchWins ==
    \A i \in Procs :
        (inv[i].op \in ResolverOps /\ inv[i].fetched # None) =>
            LET tasks == inv[i].fetched[1]
                name == inv[i].args.task_name
            IN /\ IsFirstMatch(tasks, name, inv[i].matching_task)
               /\ (name = <<>> /\ tasks # <<>>) => inv[i].matching_task = Some(tasks[1])
               /\ update_matching_task(tasks, name) = delete_matching_task(tasks, name)
               /\ delete_matching_task(tasks, name) = complete_matching_task(tasks, name)
               /\ IsFirstMatch(tasks, name, update_matching_task(tasks, name))
               /\ Len(inv[i].calls) = 2 =>
                     inv[i].calls[2].kwargs["task_id"] = inv[i].matching_task[1].id

\* Two tasks match a name that differs in case from both; the first was acted on.
C1_Witness ==
    /\ inv[1].op = "delete" /\ Len(inv[1].calls) = 2
    /\ inv[1].args.task_name = <<"B">>
    /\ Len(inv[1].fetched[1]) = 2
    /\ \A k \in 1..2 : ContainsIgnoringCase(inv[1].fetched[1][k].content, <<"B">>)
    /\ inv[1].matching_task = Some(inv[1].fetched[1][1])

\* C2: a priority outside 1..4 is never forwarded to the collaborator and never
\* causes an error; todoist_get_tasks then filters nothing by priority.
C2_OutOfRangePriorityDropped ==
    \A i \in Procs :
        (inv[i].op \in {"create", "get", "update"} /\ inv[i].args.priority # None
            /\ ~InRange(inv[i].args.priority)) =>
            /\ \A k \in 1..Len(inv[i].calls) :
                  "priority" \notin DOMAIN inv[i].calls[k].kwargs
            /\ inv[i].escaped = None
            /\ (HasReturned(i) /\ inv[i].raised = None) =>
                  ~BeginsWithError(inv[i].result[1])
            /\ (inv[i].op = "get" /\ inv[i].fetched # None) =>
                  LET fetched == inv[i].fetched[1]
                      limit == inv[i].args.limit
                  IN inv[i].tasks =
                        IF limit > 0 /\ limit < Len(fetched)
                        THEN SubSeq(fetched, 1, limit) ELSE fetched

\* An update with priority 5 reached the collaborator and succeeded.
C2_Witness ==
    /\ inv[1].op = "update" /\ inv[1].args.priority = Some(MaxPriority + 1)
    /\ Len(inv[1].calls) = 2 /\ inv[1].is_success = Some(TRUE)

\* The positions of the fragment in the text, in increasing order.
RECURSIVE Positions(_, _, _)
Positions(text, fragment, k) ==
    IF k > Len(text) THEN <<>>
    ELSE (IF text[k] = fragment THEN <<k>> ELSE <<>>) \o Positions(text, fragment, k + 1)

\* C3: todoist_get_tasks renders exactly the fetched tasks, in fetched order,
\* restricted to the given priority when it is in 1..4, then cut to the first
\* `limit` tasks when limit > 0 and not cut otherwise; get_tasks receives only
\* project_id and/or filter; an empty outcome is the fixed "No tasks found" text.
C3_GetTasksSelection ==
    \A i \in Procs :
        (inv[i].op = "get" /\ inv[i].fetched # None) =>
            LET fetched == inv[i].fetched[1]
                shown == inv[i].tasks
                priority == inv[i].args.priority
                limit == inv[i].args.limit
                text == inv[i].result[1]
                kept == {k \in 1..Len(fetched) :
                            InRange(priority) => fetched[k].priority = priority[1]}
                n == IF limit > 0 /\ limit < Cardinality(kept)
                     THEN limit ELSE Cardinality(kept)
                bullets == Positions(text, "- ", 1)
            IN /\ Len(shown) = n
               /\ \A m \in 1..n :
                     \E k \in kept : /\ shown[m] = fetched[k]
                                     /\ Cardinality({j \in kept : j < k}) = m - 1
               /\ Len(inv[i].calls) = 1
               /\ inv[i].calls[1].fn = "get_tasks"
               /\ DOMAIN inv[i].calls[1].kwargs \subseteq {"project_id", "filter"}
               /\ (n = 0) <=> (text = <<"No tasks found matching the criteria">>)
               /\ text # <<>>
               /\ n > 0 =>
                     /\ Len(bullets) = n
                     /\ \A m \in 1..n :
                           SubSeq(text, bullets[m] + 1, bullets[m] + Len(shown[m].content))
                              = shown[m].content

\* Two fetched tasks of priority 4, asked for priority 4 with limit 1: the
\* first alone is rendered.
C3_Witness ==
    /\ inv[1].op = "get" /\ inv[1].fetched # None
    /\ inv[1].args.priority = Some(MaxPriority) /\ inv[1].args.limit = 1
    /\ Len(inv[1].fetched[1]) = 2
    /\ \A k \in 1..2 : inv[1].fetched[1][k].priority = MaxPriority
    /\ inv[1].tasks = <<inv[1].fetched[1][1]>>

\* C4: when a collaborator call raises, in the fetch or in the mutating call of
\* any handler, the invocation returns a text that begins with "Error " and
\* holds the fault's message; the fault does not leave the handler and the
\* dispatcher can answer and go on to the next invocation.
C4_FaultsBecomeText ==
    \A i \in Procs :
        /\ inv[i].escaped = None
        /\ inv[i].raised # None =>
              /\ HasReturned(i)
              /\ BeginsWithError(inv[i].result[1])
              /\ Contains(inv[i].result[1], inv[i].raised[1])
              /\ ENABLED respond(i)
        /\ inv[i].pc = "ready" => CanServe(i)

\* update_task raised after the fetch had resolved a task.
C4_Witness ==
    /\ inv[1].op = "update" /\ Len(inv[1].calls) = 2 /\ inv[1].raised # None
    /\ HasReturned(1)

\* No fetched task's content contains the name the invocation searched for.
NothingMatches(rec) ==
    /\ rec.op \in ResolverOps /\ rec.fetched # None
    /\ \A k \in 1..Len(rec.fetched[1]) :
          ~ContainsIgnoringCase(rec.fetched[1][k].content, rec.args.task_name)

C5_NotFoundAnswer ==
    \A i \in Procs :
        NothingMatches(inv[i]) =>
            /\ HasReturned(i)
            /\ inv[i].result[1]
                  = <<"Could not find a task matching \"">> \o inv[i].args.task_name
                       \o <<"\"">>
            /\ Len(inv[i].calls) = 1 /\ inv[i].calls[1].fn = "get_tasks"

C5_StoreUntouched ==
    \A i \in Procs :
        (inv'[i] # inv[i] /\ NothingMatches(inv'[i])) => store' = store

\* C5: when no fetched task contains task_name case-insensitively (the empty
\* list included), update, delete and complete return the text
\* `Could not find a task matching "<task_name>"` with the searched name, issue
\* no update_task, delete_task or close_task call, and leave the collaborator's
\* tasks as they were.
C5_NotFound == [](C5_NotFoundAnswer) /\ [][C5_StoreUntouched]_vars

\* Two tasks were fetched and neither contains "ba".
C5_Witness ==
    /\ inv[1].op = "complete" /\ NothingMatches(inv[1]) /\ HasReturned(1)
    /\ Len(inv[1].fetched[1]) = 2 /\ inv[1].args.task_name = <<"b", "a">>

\* What the collaborator did to the invocation, and what its text says happened.
Happened(rec) ==
    IF rec.raised # None THEN "raised"
    ELSE IF rec.is_success = Some(TRUE) THEN "success"
    ELSE IF rec.is_success = Some(FALSE) THEN "reported failure"
    ELSE "not found"

Reported(text) ==
    IF text[1] = "Error " THEN "raised"
    ELSE IF text[1] = "Could not find a task matching \"" THEN "not found"
    ELSE IF text \in {<<"Task update failed">>, <<"Task deletion failed">>,
                      <<"Task completion failed">>} THEN "reported failure"
    ELSE "success"

FailedText(op) ==
    CASE op = "update" -> <<"Task update failed">>
      [] op = "delete" -> <<"Task deletion failed">>
      [] op = "complete" -> <<"Task completion failed">>

\* C8: a false success indicator from update_task, delete_task or close_task
\* yields the operation's fixed "... failed" text, and success, not found,
\* reported failure and raised failure are told apart by the text: neither a
\* reported failure nor a not-found answer begins with "Error ", and a false
\* indicator is never reported as a success.
C8_OutcomesToldApart ==
    \A i \in Procs :
        (inv[i].op \in ResolverOps /\ HasReturned(i)) =>
            /\ Reported(inv[i].result[1]) = Happened(inv[i])
            /\ inv[i].is_success = Some(FALSE) =>
                  /\ inv[i].result[1] = FailedText(inv[i].op)
                  /\ ~BeginsWithError(inv[i].result[1])
            /\ Happened(inv[i]) = "not found" => ~BeginsWithError(inv[i].result[1])
            /\ Happened(inv[i]) = "success" =>
                  Contains(inv[i].result[1], inv[i].matching_task[1].content)

\* update_task answered False for a resolved task.
C8_Witness ==
    /\ inv[1].op = "update" /\ HasReturned(1) /\ inv[1].is_success = Some(FALSE)
    /\ inv[1].result[1] = <<"Task update failed">>

\* The ids of the tasks that differ between two task lists.
ChangedIds(before, after) ==
    LET b == {before[k] : k \in 1..Len(before)}
        a == {after[k] : k \in 1..Len(after)}
    IN {t.id : t \in (b \ a) \cup (a \ b)}

MutatingCall(op) ==
    CASE op = "update" -> "update_task"
      [] op = "delete" -> "delete_task"
      [] op = "complete" -> "close_task"

C10_CallShape ==
    \A i \in Procs :
        /\ inv[i].op \in ResolverOps =>
              /\ Len(inv[i].calls) \in {1, 2}
              /\ inv[i].calls[1] = [fn |-> "get_tasks", kwargs |-> <<>>]
              /\ inv[i].pc = "resolved" => Len(inv[i].calls) = 1
              /\ Len(inv[i].calls) = 2 =>
                    /\ inv[i].fetched # None
                    /\ inv[i].calls[2].fn = MutatingCall(inv[i].op)
                    /\ \E m \in 1..Len(inv[i].fetched[1]) :
                          /\ IsFirstMatch(inv[i].fetched[1], inv[i].args.task_name,
                                          Some(inv[i].fetched[1][m]))
                          /\ inv[i].calls[2].kwargs["task_id"] = inv[i].fetched[1][m].id
        /\ inv[i].op = "get" =>
              \A k \in 1..Len(inv[i].calls) : inv[i].calls[k].fn = "get_tasks"
        /\ inv[i].op = "create" =>
              (Len(inv[i].calls) = 1 /\ inv[i].calls[1].fn = "add_task")

C10_OneTaskPerStep ==
    /\ Cardinality(ChangedIds(store, store')) <= 1
    /\ \A i \in Procs :
          /\ (inv'[i] # inv[i] /\ inv'[i].op = "get") => store' = store
          /\ (inv'[i] # inv[i] /\ inv'[i].op \in ResolverOps /\ Len(inv'[i].calls) = 1)
                => store' = store
          /\ (inv'[i] # inv[i] /\ inv'[i].op \in ResolverOps /\ Len(inv'[i].calls) = 2)
                => ChangedIds(store, store') \subseteq {inv'[i].calls[2].kwargs["task_id"]}
          /\ (inv'[i] # inv[i] /\ inv'[i].op = "create")
                => \A k \in 1..Len(store) : store'[k] = store[k]

\* C10: update, delete and complete issue one unfiltered get_tasks and then at
\* most one mutating call, after the fetch, for the id resolved from that
\* fetch, so one invocation changes at most one task even when several match;
\* todoist_get_tasks issues no mutating call and todoist_create_task only
\* add_task.
C10_FetchThenOneCall == [](C10_CallShape) /\ [][C10_OneTaskPerStep]_vars

\* Two fetched tasks contain "b"; the delete removed the first and kept the other.
C10_Witness ==
    /\ inv[1].op = "delete" /\ inv[1].is_success = Some(TRUE)
    /\ inv[1].args.task_name = <<"B">>
    /\ Len(inv[1].fetched[1]) = 2
    /\ \A k \in 1..2 : ContainsIgnoringCase(inv[1].fetched[1][k].content, <<"b">>)
    /\ store = <<inv[1].fetched[1][2]>>

\* The text has a line that starts with the label.
HasLine(text, label) == HasFragment(text, label)

\* An update that the collaborator reported as done.
UpdateSucceeded(i) ==
    inv[i].op = "update" /\ HasReturned(i) /\ inv[i].is_success = Some(TRUE)

\* C6: the summary of a successful update names the matched task's original
\* content and has a "New ..." line for exactly the fields (content,
\* description, due_string, priority) forwarded in the update; it has a
\* priority line only when a priority in 1..4 was forwarded.
C6_SummaryListsForwardedFields ==
    \A i \in Procs :
        UpdateSucceeded(i) =>
            LET text == inv[i].result[1]
                sent == DOMAIN inv[i].calls[2].kwargs
            IN /\ Contains(text, <<"Task \"">> \o inv[i].matching_task[1].content)
               /\ HasLine(text, "\nNew Title: ") <=> "content" \in sent
               /\ HasLine(text, "\nNew Description: ") <=> "description" \in sent
               /\ HasLine(text, "\nNew Due Date: derived from '") <=> "due_string" \in sent
               /\ HasLine(text, "\nNew Priority: ") <=> "priority" \in sent

\* A create that carried content alone and that the collaborator served.
CreatedWithContentOnly(i) ==
    /\ inv[i].op = "create" /\ HasReturned(i) /\ inv[i].raised = None
    /\ inv[i].args.description = None /\ inv[i].args.due_string = None
    /\ inv[i].args.priority = None

\* C7 as stated: a create with content alone forwards only content, and the
\* response has "Title: <content>" and no Description, Due or Priority line.
C7_NoOptionalLines ==
    \A i \in Procs :
        CreatedWithContentOnly(i) =>
            LET text == inv[i].result[1]
            IN /\ DOMAIN inv[i].calls[1].kwargs = {"content"}
               /\ Contains(text, <<"\nTitle: ">> \o inv[i].args.content)
               /\ ~HasLine(text, "\nDescription: ")
               /\ ~HasLine(text, "\nDue: ")
               /\ ~HasLine(text, "\nPriority: ")

\* C7, amended: a create with content alone forwards only content, and the
\* response has "Title: <content>", no Description and no Due line, and a
\* Priority line with the priority of the returned task, which is in 1..4.
C7_TitleAndPriorityOnly ==
    \A i \in Procs :
        CreatedWithContentOnly(i) =>
            LET text == inv[i].result[1]
                task == store[Len(store)]
            IN /\ inv[i].calls = <<[fn |-> "add_task",
                                    kwargs |-> [content |-> inv[i].args.content]]>>
               /\ task.priority \in MinPriority..MaxPriority
               /\ text = <<"Task created:", "\nTitle: ">> \o inv[i].args.content
                            \o <<"\nPriority: ", IntStr(task.priority)>>

\* A content-only create answered while the collaborator already held a task
\* with a description and a due date.
C7_Witness ==
    /\ CreatedWithContentOnly(1)
    /\ Len(store) = 2
    /\ store[1].description # <<>> /\ store[1].due # None

\* C9 as stated: under interleaving, whenever an invocation is about to issue
\* its update_task, delete_task or close_task call, the targeted task still
\* exists in the collaborator and is still the first task containing task_name.
C9_StalenessFree ==
    \A i \in Procs :
        inv[i].pc = "resolved" =>
            \E k \in 1..Len(store) :
                /\ store[k].id = inv[i].matching_task[1].id
                /\ IsFirstMatch(store, inv[i].args.task_name, Some(store[k]))

C9_FreshAtFetch ==
    \A i \in Procs :
        (inv[i].pc = "ready" /\ inv'[i].op \in ResolverOps /\ inv'[i].fetched # None) =>
            /\ inv'[i].fetched[1] = store
            /\ IsFirstMatch(store, inv'[i].args.task_name, inv'[i].matching_task)

C9_SuccessNamesFetched ==
    \A i \in Procs :
        (inv[i].op \in ResolverOps /\ inv[i].is_success = Some(TRUE)) =>
            /\ Contains(inv[i].result[1], inv[i].matching_task[1].content)
            /\ ContainsIgnoringCase(inv[i].matching_task[1].content, inv[i].args.task_name)
            /\ \E k \in 1..Len(inv[i].fetched[1]) :
                  inv[i].fetched[1][k] = inv[i].matching_task[1]

\* C9, amended: under interleaving the resolver's view is fresh at the fetch
\* only: when an invocation fetches, the task it resolves exists in the
\* collaborator and is the first task containing task_name; when it later
\* issues its call the task may be gone or renamed, and a success names the
\* content the task had when it was fetched.
C9_FreshOnlyAtFetch == [][C9_FreshAtFetch]_vars /\ [](C9_SuccessNamesFetched)

\* Two invocations have resolved the same task and neither has acted yet.
C9_Witness ==
    /\ inv[1].pc = "resolved" /\ inv[2].pc = "resolved"
    /\ inv[1].matching_task = inv[2].matching_task
    /\ inv[1].op # inv[2].op

====
